---- MODULE Spec2Model ----
(***************************************************************************)
(* goodreader: the paginated fetch-and-extract engine of GoodreadsClient   *)
(* (goodreads.py) over the file cache with TTL (cache.py), the slug/title  *)
(* codec (utilities.py), the interactive paginator (inputs.py) and the     *)
(* genre command with its matcher (commands/genre.py).                     *)
(*                                                                         *)
(* Text is a sequence of one-character strings, so that lower(), strip(),  *)
(* replace() and the regular expressions of the codec are computed         *)
(* character by character.  A fetched page is what                         *)
(* _extract_books_from_soup / _extract_genres_from_soup and the next-link  *)
(* selectors read from it: the extracted records and the selected          *)
(* next-page link.  One process runs; pc is where it is, and args, page,   *)
(* result, stop and log belong to the call in progress.                    *)
(***************************************************************************)
EXTENDS Integers, Sequences, FiniteSets, TLC

(***************************************************************************)
(* Bounds of the model.                                                    *)
(***************************************************************************)
MaxPageLen == 2      \* records on one fetched page
MaxCap == 2          \* largest small max_pages argument tried
MaxGenrePages == 2   \* pages of the genre list the site is asked for
MaxTtl == 2          \* largest ttl_seconds of a stand-alone Cache object
MaxTime == 5         \* last clock value of the stand-alone Cache object
MaxSets == 2         \* writes that reach the stand-alone Cache object's file
MaxInputs == 4       \* answers given to the paginator's prompts in one call
MaxTextLen == 4      \* characters of a text given to the codec
MaxCodecSteps == 2   \* codec functions applied one after the other

(***************************************************************************)
(* Program constants.                                                      *)
(***************************************************************************)
DEFAULT_CACHE_TTL == 86400
DefaultMaxPages == 200

CACHE_KEY_GENRES == "genres"
CACHE_KEY_BOOKS_FOR_GENRE == "books_for_genre"

(***************************************************************************)
(* Optional values (Python's None).                                        *)
(***************************************************************************)
NoneInt == [some |-> FALSE, v |-> 0]
SomeInt(n) == [some |-> TRUE, v |-> n]
NoneList == [some |-> FALSE, v |-> <<>>]
SomeList(l) == [some |-> TRUE, v |-> l]
NoneDir == "<None>"
DefaultDumpDir == "."

(***************************************************************************)
(* str.lower(), str.strip(), str.replace(" ", "-") on character sequences. *)
(***************************************************************************)
LowerLetters ==
    <<"a", "b", "c", "d", "e", "f", "g", "h", "i", "j", "k", "l", "m",
      "n", "o", "p", "q", "r", "s", "t", "u", "v", "w", "x", "y", "z">>

UpperLetters ==
    <<"A", "B", "C", "D", "E", "F", "G", "H", "I", "J", "K", "L", "M",
      "N", "O", "P", "Q", "R", "S", "T", "U", "V", "W", "X", "Y", "Z">>

DigitChars == <<"0", "1", "2", "3", "4", "5", "6", "7", "8", "9">>

\* One letter outside ASCII, in its two cases.
NonAsciiLower == "U+00E9"
NonAsciiUpper == "U+00C9"

IndexOf(c, table) == CHOOSE i \in DOMAIN table : table[i] = c

InTable(c, table) == \E i \in DOMAIN table : table[i] = c

\* str.lower() and str.upper() of one character, as tables.
LowerOf ==
    [c \in {UpperLetters[i] : i \in DOMAIN UpperLetters} \cup {NonAsciiUpper} |->
        IF c = NonAsciiUpper THEN NonAsciiLower
        ELSE LowerLetters[IndexOf(c, UpperLetters)]]

UpperOf ==
    [c \in {LowerLetters[i] : i \in DOMAIN LowerLetters} \cup {NonAsciiLower} |->
        IF c = NonAsciiLower THEN NonAsciiUpper
        ELSE UpperLetters[IndexOf(c, LowerLetters)]]

Lower(c) == IF c \in DOMAIN LowerOf THEN LowerOf[c] ELSE c

Upper(c) == IF c \in DOMAIN UpperOf THEN UpperOf[c] ELSE c

LowerStr(s) == [i \in DOMAIN s |-> Lower(s[i])]

\* Whitespace as str.strip() and the regex class \s see it.
Whitespace == {" ", "\t"}

IsSpace(c) == c \in Whitespace

RECURSIVE LStrip(_)
LStrip(s) == IF s # <<>> /\ IsSpace(Head(s)) THEN LStrip(Tail(s)) ELSE s

RECURSIVE RStrip(_)
RStrip(s) ==
    IF s # <<>> /\ IsSpace(s[Len(s)]) THEN RStrip(SubSeq(s, 1, Len(s) - 1)) ELSE s

Strip(s) == RStrip(LStrip(s))

ReplaceSpaceByHyphen(s) == [i \in DOMAIN s |-> IF s[i] = " " THEN "-" ELSE s[i]]

(***************************************************************************)
(* utilities.py: the slug/title codec.                                     *)
(***************************************************************************)
\* _WORD_SEP_RE = [\s\-_]+ matches runs of these characters.
IsWordSep(c) == IsSpace(c) \/ c = "-" \/ c = "_"

\* _NON_ALNUM_RE = [^a-z0-9\- ]+ matches runs of every other character.
IsSlugSource(c) ==
    InTable(c, LowerLetters) \/ InTable(c, DigitChars) \/ c = "-" \/ c = " "

\* [p for p in _WORD_SEP_RE.split(value) if p], reading s from position i with
\* the piece begun so far in word.
RECURSIVE SplitWords(_, _, _)
SplitWords(s, i, word) ==
    IF i > Len(s) THEN (IF word = <<>> THEN <<>> ELSE <<word>>)
    ELSE IF IsWordSep(s[i])
         THEN (IF word = <<>> THEN <<>> ELSE <<word>>) \o SplitWords(s, i + 1, <<>>)
         ELSE SplitWords(s, i + 1, Append(word, s[i]))

\* str.capitalize().
Capitalize(p) == [i \in DOMAIN p |-> IF i = 1 THEN Upper(p[i]) ELSE Lower(p[i])]

\* " ".join(parts).
RECURSIVE JoinWithSpace(_)
JoinWithSpace(parts) ==
    IF parts = <<>> THEN <<>>
    ELSE IF Len(parts) = 1 THEN parts[1]
    ELSE parts[1] \o <<" ">> \o JoinWithSpace(Tail(parts))

slug_to_title(value) ==
    LET v == Strip(value)
        parts == SplitWords(v, 1, <<>>)
    IN  IF v = <<>> THEN <<>>
        ELSE JoinWithSpace([i \in DOMAIN parts |-> Capitalize(LowerStr(parts[i]))])

\* _NON_ALNUM_RE.sub("", value).
NonAlnumSub(s) == SelectSeq(s, IsSlugSource)

\* Variant: separators are left as they are.
WordSepSubKeeps(s) == s

\* _WORD_SEP_RE.sub("-", value): every run of separators becomes one hyphen.
WordSepSub(s) ==
    LET keep == {i \in DOMAIN s : ~IsWordSep(s[i]) \/ i = 1 \/ ~IsWordSep(s[i - 1])}
        F[i \in 0..Len(s)] ==
            IF i = 0 THEN <<>>
            ELSE IF i \notin keep THEN F[i - 1]
            ELSE Append(F[i - 1], IF IsWordSep(s[i]) THEN "-" ELSE s[i])
    IN  F[Len(s)]

\* Variant: hyphens at the ends stay.
StripHyphensNone(s) == s

\* str.strip("-").
RECURSIVE StripHyphens(_)
StripHyphens(s) ==
    IF s # <<>> /\ Head(s) = "-" THEN StripHyphens(Tail(s))
    ELSE IF s # <<>> /\ s[Len(s)] = "-" THEN StripHyphens(SubSeq(s, 1, Len(s) - 1))
    ELSE s

title_to_slug(value) ==
    LET v == LowerStr(Strip(value))
    IN  IF v = <<>> THEN <<>>
        ELSE StripHyphens(WordSepSub(NonAlnumSub(v)))

(***************************************************************************)
(* cache.py: one file per logical name; its modification time is the only  *)
(* expiry signal.                                                          *)
(***************************************************************************)
NoFile == [exists |-> FALSE, mtime |-> 0, corrupt |-> FALSE, data |-> <<>>]

is_expired(f, t, ttlSeconds) ==
    IF ~f.exists THEN TRUE ELSE (t - f.mtime) > ttlSeconds

\* Variant: a file that does not parse is served as an empty list.
CacheGetServesCorrupt(f, t, ttlSeconds, readable) ==
    IF is_expired(f, t, ttlSeconds) THEN NoneList
    ELSE IF ~readable THEN NoneList
    ELSE SomeList(f.data)

\* readable = FALSE: open()/read() raises OSError, which get() swallows.
CacheGet(f, t, ttlSeconds, readable) ==
    IF is_expired(f, t, ttlSeconds) THEN NoneList
    ELSE IF ~readable \/ f.corrupt THEN NoneList
    ELSE SomeList(f.data)

\* io = "ok": the file is replaced; "open_fails": open("w") raises OSError and
\* the file is untouched; "write_fails": the file was truncated and the dump
\* raised OSError part-way.  The OSError is swallowed in every case.
SetOutcomes == {"ok", "open_fails", "write_fails"}

\* Variant: an overwrite keeps the file's first modification time.
CacheSetKeepsMtime(f, data, t, io) ==
    CASE io = "ok" ->
            [exists |-> TRUE, mtime |-> IF f.exists THEN f.mtime ELSE t,
             corrupt |-> FALSE, data |-> data]
      [] io = "open_fails" -> f
      [] OTHER ->
            [exists |-> TRUE, mtime |-> IF f.exists THEN f.mtime ELSE t,
             corrupt |-> TRUE, data |-> <<>>]

CacheSet(f, data, t, io) ==
    CASE io = "ok" ->
            [exists |-> TRUE, mtime |-> t, corrupt |-> FALSE, data |-> data]
      [] io = "open_fails" -> f
      [] OTHER ->
            [exists |-> TRUE, mtime |-> t, corrupt |-> TRUE, data |-> <<>>]

(***************************************************************************)
(* The site.  A book block as _extract_books_from_soup returns it (the     *)
(* fields the engine reads, and the cover image as one that it does not):  *)
(* title and author are already stripped, published_year is an int.        *)
(***************************************************************************)
B1 == [title |-> <<"a">>, author |-> <<"s">>, published_year |-> 0,
       compressed_img_url |-> "u1"]
B2 == [title |-> <<"A">>, author |-> <<"S">>, published_year |-> 0,
       compressed_img_url |-> "u2"]
B3 == [title |-> <<"a">>, author |-> <<"s">>, published_year |-> 1,
       compressed_img_url |-> "u1"]

\* B1 and B2 differ in letter case and cover image only; B3 in the year only.
BookPool == {B1, B2, B3}

SeqsUpTo(S, n) == UNION {[1..k -> S] : k \in 0..n}

\* The next-page link the selectors a[rel="next"], a.next_page, ... pick.
NoLink == [found |-> FALSE, disabled |-> FALSE, aria_disabled |-> FALSE,
           parent_disabled |-> FALSE, href |-> FALSE]
UsableLink == [found |-> TRUE, disabled |-> FALSE, aria_disabled |-> FALSE,
               parent_disabled |-> FALSE, href |-> TRUE]

BookNextLinks == {NoLink, UsableLink}

GenreNextLinks ==
    {NoLink, UsableLink,
     [UsableLink EXCEPT !.disabled = TRUE],
     [UsableLink EXCEPT !.aria_disabled = TRUE],
     [UsableLink EXCEPT !.parent_disabled = TRUE],
     [UsableLink EXCEPT !.href = FALSE]}

BookPages ==
    {[recs |-> r, next |-> n] : r \in SeqsUpTo(BookPool, MaxPageLen),
                                n \in BookNextLinks}

\* Genre names as the genre link's text gives them; "U+00E9" stands for one
\* character outside ordinals 32..126.
NonAscii == {"U+00E9"}
RawGenrePool == {<<"s", "f">>, <<"b">>, <<"U+00E9">>}

GenrePages ==
    {[names |-> g, next |-> n] : g \in SeqsUpTo(RawGenrePool, 1),
                                 n \in GenreNextLinks}

\* _get_next_page_href: TRUE when a usable link with a non-empty href exists.
get_next_page_href(next) ==
    IF ~next.found THEN FALSE
    ELSE IF next.disabled THEN FALSE
    ELSE IF next.aria_disabled THEN FALSE
    ELSE IF next.parent_disabled THEN FALSE
    ELSE next.href

has_next_page(next) == get_next_page_href(next)

extract_genres_from_soup(names) ==
    SelectSeq(names, LAMBDA g : \A i \in DOMAIN g : g[i] \notin NonAscii)

(***************************************************************************)
(* Cache keys.                                                             *)
(***************************************************************************)
normalize_genre_slug(genre) == ReplaceSpaceByHyphen(LowerStr(Strip(genre)))

books_for_genre_cache_key(genre) ==
    <<CACHE_KEY_BOOKS_FOR_GENRE, normalize_genre_slug(genre)>>

GenresCacheKey == <<CACHE_KEY_GENRES, <<>>>>

\* The genre arguments tried.
GenreArgs == {<<" ", "S", " ", "F">>}

CacheNames == {GenresCacheKey} \cup {books_for_genre_cache_key(g) : g \in GenreArgs}

(***************************************************************************)
(* get_books_for_genre: keys, signature, deduplication, cap, cache policy. *)
(***************************************************************************)
\* Variant: the key without lower().
BookKeyCaseSensitive(b) == <<Strip(b.title), Strip(b.author), b.published_year>>

BookKey(b) ==
    <<LowerStr(Strip(b.title)), LowerStr(Strip(b.author)), b.published_year>>

PageKeys(recs) == [i \in DOMAIN recs |-> BookKey(recs[i])]

\* Variant: every record of the page counts as added.
AddNewBooksCountsAll(acc, recs, i) == [acc EXCEPT !.added = Len(recs)]

\* The loop "for b, k in zip(page_books, page_keys)": acc is
\* [books, seen_keys, added].
RECURSIVE AddNewBooks(_, _, _)
AddNewBooks(acc, recs, i) ==
    IF i > Len(recs) THEN acc
    ELSE IF BookKey(recs[i]) \in acc.seen_keys THEN AddNewBooks(acc, recs, i + 1)
    ELSE AddNewBooks([books |-> Append(acc.books, recs[i]),
                      seen_keys |-> acc.seen_keys \cup {BookKey(recs[i])},
                      added |-> acc.added + 1], recs, i + 1)

\* Variant: the signature check never fires.
SignatureNeverSeen(signature, signatures) == FALSE

SignatureSeen(signature, signatures) == signature \in signatures

\* Variant: a page that added nothing does not stop the loop.
NothingAddedNever(added) == FALSE

\* Line 179: added == 0.
NothingAdded(added) == added = 0

\* Variant: the cap compares with >=.
CapReachedOnePageEarly(max_pages, p) == max_pages.some /\ p >= max_pages.v

CapReached(max_pages, p) == max_pages.some /\ p > max_pages.v

BooksCacheRead(use_cache, dump_pages_dir) == use_cache /\ dump_pages_dir = NoneDir

BooksCacheWrite(use_cache, dump_pages_dir) == use_cache /\ dump_pages_dir = NoneDir

MaxPagesArgs == {NoneInt, SomeInt(DefaultMaxPages)} \cup {SomeInt(m) : m \in 0..MaxCap}

DumpArgs == {NoneDir, DefaultDumpDir}

(***************************************************************************)
(* State.                                                                  *)
(***************************************************************************)
VARIABLES
    files,                 \* cache name -> the cache file
    now,                   \* time.time()
    ttl,                   \* ttl_seconds of the Cache object in use
    pc,                    \* "idle", "books", "genres", "returned", "raised"
    args,                  \* arguments of the call in progress
    books,                 \* get_books_for_genre: books
    seen_keys,             \* get_books_for_genre: seen_keys
    seen_page_signatures,  \* get_books_for_genre: seen_page_signatures
    genres,                \* get_genres: genres
    page,                  \* page number the loop is at
    result,                \* the list returned to the caller
    stop,                  \* why the call ended
    log,                   \* history: the fetches of this call, in order
    last_next,             \* the next-page link of the page fetched last
    files0,                \* history: the cache files when the call began
    cache_read,            \* history: "none", or how the call's cache.get() went
    got,                   \* stand-alone Cache: the last get(), a history
    lastSet,               \* stand-alone Cache: the set() calls, a history
    cmd                    \* the frame of the genre command, when it runs

vars == <<files, now, ttl, pc, args, books, seen_keys,
          seen_page_signatures, genres, page, result, stop, log, last_next,
          files0, cache_read, got, lastSet, cmd>>

NoArgs == [fn |-> "none", genre |-> <<>>, use_cache |-> FALSE,
           max_pages |-> NoneInt, dump_pages_dir |-> NoneDir]

\* got: the value get() returned, when, whether the file could be read, and
\* how many writes had reached the file by then.
NoGot == [done |-> FALSE, val |-> NoneList, at |-> 0, readable |-> TRUE,
          sets |-> 0]

\* lastSet: the number of set() calls that reached the file, the time of the
\* first and of the latest of them, and the latest one's data and outcome.
NoSet == [n |-> 0, first |-> 0, at |-> 0, data |-> <<>>, ok |-> FALSE]

\* cmd: where genre_command is, its arguments and its locals.
NoCmd == [at |-> "none", keyword |-> <<>>, use_cache |-> FALSE,
          genres |-> <<>>, genres_cache_read |-> "none", key_slug |-> <<>>,
          ranked |-> <<>>, chosen |-> <<>>, auto_picked |-> FALSE,
          titles |-> <<>>, suggestions |-> <<>>]

\* Lists a cache file can hold when the program starts: written by an earlier
\* run of the program, or damaged since.
StoredBooks == <<B2, B3>>
StoredGenres == <<<<"b">>>>

StoredFile(data) == [exists |-> TRUE, mtime |-> 0, corrupt |-> FALSE, data |-> data]
DamagedFile == [exists |-> TRUE, mtime |-> 0, corrupt |-> TRUE, data |-> <<>>]

StoredFiles ==
    [n \in CacheNames |-> IF n = GenresCacheKey THEN StoredFile(StoredGenres)
                                                ELSE StoredFile(StoredBooks)]

\* One behaviour is one run of the command-line program.  What earlier runs
\* left: no cache files; files written a
\* whole TTL ago, the oldest that are still valid; the same files a second
\* later, expired; damaged files.
Situations ==
    {[files |-> [n \in CacheNames |-> NoFile], now |-> 0],
     [files |-> StoredFiles, now |-> DEFAULT_CACHE_TTL],
     [files |-> StoredFiles, now |-> DEFAULT_CACHE_TTL + 1],
     [files |-> [n \in CacheNames |-> DamagedFile], now |-> 0]}

IdleLocals ==
    /\ pc = "idle"
    /\ args = NoArgs
    /\ books = <<>>
    /\ seen_keys = {}
    /\ seen_page_signatures = {}
    /\ genres = <<>>
    /\ page = 1
    /\ result = <<>>
    /\ stop = "none"
    /\ log = <<>>
    /\ last_next = NoLink

Init ==
    /\ \E sit \in Situations : files = sit.files /\ now = sit.now
    /\ ttl = DEFAULT_CACHE_TTL
    /\ IdleLocals
    /\ files0 = files
    /\ cache_read = "none"
    /\ got = NoGot
    /\ lastSet = NoSet
    /\ cmd = NoCmd

(***************************************************************************)
(* get_books_for_genre.                                                    *)
(***************************************************************************)
BooksKey == books_for_genre_cache_key(args.genre)

\* Lines 189-197: the optional cache write, then "return books".
BooksFinish(why, io) ==
    /\ files' = IF BooksCacheWrite(args.use_cache, args.dump_pages_dir)
                THEN [files EXCEPT ![BooksKey] = CacheSet(@, books, now, io)]
                ELSE files
    /\ result' = books
    /\ stop' = why
    /\ pc' = "returned"

\* Lines 90-118: the cache read, then the loop's initial state.
CallBooks(g, uc, mp, dd) ==
    /\ pc = "idle"
    /\ args' = [fn |-> "books", genre |-> g, use_cache |-> uc,
                max_pages |-> mp, dump_pages_dir |-> dd]
    /\ files0' = files
    /\ \E readable \in (IF BooksCacheRead(uc, dd) THEN BOOLEAN ELSE {TRUE}) :
         LET cached == CacheGet(files[books_for_genre_cache_key(g)], now, ttl,
                                readable)
         IN  /\ cache_read' = IF ~BooksCacheRead(uc, dd) THEN "none"
                              ELSE IF readable THEN "ok" ELSE "oserror"
             /\ IF BooksCacheRead(uc, dd) /\ cached.some
                THEN /\ result' = cached.v
                     /\ stop' = "hit"
                     /\ pc' = "returned"
                ELSE /\ result' = <<>>
                     /\ stop' = "none"
                     /\ pc' = "books"
    /\ UNCHANGED <<cmd, files, now, ttl, books, seen_keys, seen_page_signatures,
                   genres, page, log, last_next, got, lastSet>>

\* Lines 120-126: the safety cap.
BooksCapStop(io) ==
    /\ pc = "books"
    /\ CapReached(args.max_pages, page)
    /\ BooksFinish("cap", io)
    /\ UNCHANGED <<cmd, cache_read, last_next, now, ttl, args, books, seen_keys,
                   seen_page_signatures, genres, page, log, files0, got,
                   lastSet>>

\* Variant: the failure is swallowed and the books so far are returned.
BooksFetchFailsReturnsPartial ==
    /\ pc = "books"
    /\ ~CapReached(args.max_pages, page)
    /\ log' = Append(log, [page |-> page, ok |-> FALSE, recs |-> <<>>])
    /\ BooksFinish("fail", "ok")
    /\ UNCHANGED <<cmd, now, ttl, args, books, seen_keys, seen_page_signatures,
                   genres, page, last_next, files0, cache_read, got, lastSet>>

\* Line 129: get_request raises; nothing in the engine catches it.
BooksFetchFails ==
    /\ pc = "books"
    /\ ~CapReached(args.max_pages, page)
    /\ log' = Append(log, [page |-> page, ok |-> FALSE, recs |-> <<>>])
    /\ pc' = "raised"
    /\ stop' = "fail"
    /\ UNCHANGED <<cmd, cache_read, last_next, files, now, ttl, args, books, seen_keys,
                   seen_page_signatures, genres, page, result, files0, got,
                   lastSet>>

\* Lines 128-187: one iteration that fetched page pg.
BooksFetchPage(pg, io) ==
    /\ pc = "books"
    /\ ~CapReached(args.max_pages, page)
    /\ log' = Append(log, [page |-> page, ok |-> TRUE, recs |-> pg.recs])
    /\ last_next' = pg.next
    /\ LET signature == PageKeys(pg.recs)
           acc == AddNewBooks([books |-> books, seen_keys |-> seen_keys,
                               added |-> 0], pg.recs, 1)
       IN  IF pg.recs = <<>>
           THEN /\ BooksFinish("empty", io)
                /\ UNCHANGED <<books, seen_keys, seen_page_signatures, page>>
           ELSE IF SignatureSeen(signature, seen_page_signatures)
           THEN /\ BooksFinish("repeat", io)
                /\ UNCHANGED <<books, seen_keys, seen_page_signatures, page>>
           ELSE IF NothingAdded(acc.added)
           THEN /\ BooksFinish("stuck", io)
                /\ seen_page_signatures' = seen_page_signatures \cup {signature}
                /\ UNCHANGED <<books, seen_keys, page>>
           ELSE /\ seen_page_signatures' = seen_page_signatures \cup {signature}
                /\ books' = acc.books
                /\ seen_keys' = acc.seen_keys
                /\ page' = page + 1
                /\ UNCHANGED <<files, result, stop, pc>>
    /\ UNCHANGED <<cmd, cache_read, now, ttl, args, genres, files0, got, lastSet>>

(***************************************************************************)
(* get_genres.                                                             *)
(***************************************************************************)
GenresCacheRead(use_cache) == use_cache

\* Line 66: cache.set(genres) is not guarded by use_cache.
GenresCacheWrite(use_cache) == TRUE

\* Lines 38-49.
CallGenres(uc) ==
    /\ pc = "idle"
    /\ args' = [NoArgs EXCEPT !.fn = "genres", !.use_cache = uc]
    /\ files0' = files
    /\ \E readable \in (IF GenresCacheRead(uc) THEN BOOLEAN ELSE {TRUE}) :
         LET cached == CacheGet(files[GenresCacheKey], now, ttl, readable)
         IN  /\ cache_read' = IF ~GenresCacheRead(uc) THEN "none"
                              ELSE IF readable THEN "ok" ELSE "oserror"
             /\ IF GenresCacheRead(uc) /\ cached.some
                THEN /\ result' = cached.v
                     /\ stop' = "hit"
                     /\ pc' = "returned"
                ELSE /\ result' = <<>>
                     /\ stop' = "none"
                     /\ pc' = "genres"
    /\ UNCHANGED <<cmd, files, now, ttl, books, seen_keys, seen_page_signatures,
                   genres, page, log, last_next, got, lastSet>>

\* Line 53: get_request raises.
GenresFetchFails ==
    /\ pc = "genres"
    /\ page <= MaxGenrePages
    /\ log' = Append(log, [page |-> page, ok |-> FALSE, recs |-> <<>>])
    /\ pc' = "raised"
    /\ stop' = "fail"
    /\ UNCHANGED <<cmd, cache_read, last_next, files, now, ttl, args, books, seen_keys,
                   seen_page_signatures, genres, page, result, files0, got,
                   lastSet>>

\* Lines 52-67: one iteration that fetched page pg.
GenresFetchPage(pg, io) ==
    /\ pc = "genres"
    /\ page <= MaxGenrePages
    /\ log' = Append(log, [page |-> page, ok |-> TRUE, recs |-> pg.names])
    /\ last_next' = pg.next
    /\ genres' = genres \o extract_genres_from_soup(pg.names)
    /\ IF ~has_next_page(pg.next)
       THEN /\ files' = IF GenresCacheWrite(args.use_cache)
                        THEN [files EXCEPT ![GenresCacheKey] =
                                  CacheSet(@, genres', now, io)]
                        ELSE files
            /\ result' = genres'
            /\ stop' = "no_next"
            /\ pc' = "returned"
            /\ UNCHANGED page
       ELSE /\ page' = page + 1
            /\ UNCHANGED <<files, result, stop, pc>>
    /\ UNCHANGED <<cmd, cache_read, now, ttl, args, books, seen_keys,
                   seen_page_signatures, files0, got, lastSet>>

Next ==
    \/ \E g \in GenreArgs, uc \in BOOLEAN, mp \in MaxPagesArgs, dd \in DumpArgs :
           CallBooks(g, uc, mp, dd)
    \/ \E io \in SetOutcomes : BooksCapStop(io)
    \/ BooksFetchFails
    \/ \E pg \in BookPages, io \in SetOutcomes : BooksFetchPage(pg, io)
    \/ \E uc \in BOOLEAN : CallGenres(uc)
    \/ GenresFetchFails
    \/ \E pg \in GenrePages, io \in SetOutcomes : GenresFetchPage(pg, io)

Spec == Init /\ [][Next]_vars

\* The same engine over the same pages, called with caching in force
\* (use_cache true, no page dump) and max_pages unset or small, started with
\* cache files that exist and with every cache write succeeding.
PagesMaxPagesArgs == {NoneInt} \cup {SomeInt(m) : m \in 0..MaxCap}

PagesInit ==
    /\ Init
    /\ files = StoredFiles

PagesNext ==
    \/ \E g \in GenreArgs, mp \in PagesMaxPagesArgs : CallBooks(g, TRUE, mp, NoneDir)
    \/ BooksCapStop("ok")
    \/ BooksFetchFails
    \/ \E pg \in BookPages : BooksFetchPage(pg, "ok")
    \/ \E uc \in BOOLEAN : CallGenres(uc)
    \/ GenresFetchFails
    \/ \E pg \in GenrePages : GenresFetchPage(pg, "ok")

SpecPages == PagesInit /\ [][PagesNext]_vars

\* The same engine with caching in force, started with cache files that exist
\* and have not expired, sound or damaged, and with cache reads and writes
\* that can fail.
FaultsMaxPagesArgs == {NoneInt, SomeInt(MaxCap)}

FaultsInit ==
    /\ Init
    /\ \A n \in CacheNames : files[n].exists /\ ~is_expired(files[n], now, ttl)

\* The book pages served: the loop does not look at their next-page link.
FaultsBookPages == {pg \in BookPages : pg.next = NoLink}

FaultsNext ==
    \/ \E g \in GenreArgs, mp \in FaultsMaxPagesArgs : CallBooks(g, TRUE, mp, NoneDir)
    \/ \E io \in SetOutcomes : BooksCapStop(io)
    \/ BooksFetchFails
    \/ \E pg \in FaultsBookPages, io \in SetOutcomes : BooksFetchPage(pg, io)
    \/ CallGenres(TRUE)
    \/ GenresFetchFails
    \/ \E pg \in GenrePages, io \in SetOutcomes : GenresFetchPage(pg, io)

SpecFaults == FaultsInit /\ [][FaultsNext]_vars

(***************************************************************************)
(* A stand-alone Cache object (cache.py) with any ttl_seconds, under       *)
(* get(), set() and the passing of time.                                   *)
(***************************************************************************)
CacheObjName == GenresCacheKey

CachePayloads == {<<>>, StoredGenres}

CacheInit ==
    /\ files = [n \in CacheNames |-> NoFile]
    /\ now = 0
    /\ ttl \in 0..MaxTtl
    /\ IdleLocals
    /\ files0 = files
    /\ cache_read = "none"
    /\ got = NoGot
    /\ lastSet = NoSet
    /\ cmd = NoCmd

CacheTick ==
    /\ now < MaxTime
    /\ now' = now + 1
    /\ UNCHANGED <<cmd, cache_read, files, ttl, pc, args, books, seen_keys,
                   seen_page_signatures, genres, page, result, stop, log,
                   last_next, files0, got, lastSet>>

CacheObjGet(readable) ==
    /\ got' = [done |-> TRUE,
               val |-> CacheGet(files[CacheObjName], now, ttl, readable),
               at |-> now, readable |-> readable, sets |-> lastSet.n]
    /\ UNCHANGED <<cmd, cache_read, files, now, ttl, pc, args, books, seen_keys,
                   seen_page_signatures, genres, page, result, stop, log,
                   last_next, files0, lastSet>>

CacheObjSet(data, io) ==
    /\ lastSet.n < MaxSets
    /\ files' = [files EXCEPT ![CacheObjName] = CacheSet(@, data, now, io)]
    /\ lastSet' = IF io = "open_fails" THEN lastSet
                  ELSE [n |-> lastSet.n + 1,
                        first |-> IF lastSet.n = 0 THEN now ELSE lastSet.first,
                        at |-> now, data |-> data, ok |-> (io = "ok")]
    /\ UNCHANGED <<cmd, cache_read, now, ttl, pc, args, books, seen_keys,
                   seen_page_signatures, genres, page, result, stop, log,
                   last_next, files0, got>>

CacheNext ==
    \/ CacheTick
    \/ \E readable \in BOOLEAN : CacheObjGet(readable)
    \/ \E data \in CachePayloads, io \in SetOutcomes : CacheObjSet(data, io)

SpecCache == CacheInit /\ [][CacheNext]_vars

(***************************************************************************)
(* inputs.py: paginate.  One action per prompt answered; log is the        *)
(* history of the answers: the prompt, the page displayed, what was        *)
(* entered and the message printed in reply.                               *)
(***************************************************************************)
NoneItem == [some |-> FALSE, v |-> <<>>]
SomeItem(x) == [some |-> TRUE, v |-> x]

\* What input() gives: a line of text, or an exception raised in its place.
Line(t) == [exc |-> "none", text |-> t]
Raises(e) == [exc |-> e, text |-> <<>>]

\* str(k) for an integer k.
RECURSIVE NatText(_)
NatText(k) ==
    IF k < 10 THEN <<DigitChars[k + 1]>>
    ELSE Append(NatText(k \div 10), DigitChars[(k % 10) + 1])

IntText(k) == IF k < 0 THEN <<"-">> \o NatText(0 - k) ELSE NatText(k)

\* int(s) for a stripped s: an optional sign, then decimal digits.
RECURSIVE DigitsValue(_)
DigitsValue(s) ==
    IF s = <<>> THEN 0
    ELSE 10 * DigitsValue(SubSeq(s, 1, Len(s) - 1))
         + (IndexOf(s[Len(s)], DigitChars) - 1)

ParseInt(s) ==
    LET signed == s # <<>> /\ s[1] \in {"-", "+"}
        body == IF signed THEN Tail(s) ELSE s
    IN  IF body = <<>> \/ \E i \in DOMAIN body : ~InTable(body[i], DigitChars)
        THEN [ok |-> FALSE, v |-> 0]
        ELSE [ok |-> TRUE,
              v |-> IF signed /\ s[1] = "-" THEN 0 - DigitsValue(body)
                    ELSE DigitsValue(body)]

\* Variant: the page count rounds down.
PageCountFloor(total, page_size) == total \div page_size

\* Line 66.
PageCount(total, page_size) == (total + page_size - 1) \div page_size

\* _render_page, lines 72-73, and lines 89-90.
PageStart(p, page_size) == (p - 1) * page_size

\* Variant: the end of the page is not cut at the number of items.
PageEndUnclamped(p, page_size, total) == PageStart(p, page_size) + page_size

PageEnd(p, page_size, total) ==
    IF PageStart(p, page_size) + page_size < total
    THEN PageStart(p, page_size) + page_size
    ELSE total

\* Variant: the range checked starts at item 1.
InRangeFromOne(low, high, pick) == 1 <= pick /\ pick <= high

\* Line 163.
InPageRange(low, high, pick) == low <= pick /\ pick <= high

\* Variant: every page number is taken.
GotoPageAny(goto_page, pages) == TRUE

\* Line 145: 1 <= goto_page <= pages.
GotoPageInRange(goto_page, pages) == 1 <= goto_page /\ goto_page <= pages

\* Variant: selection is never disabled.
SelectionNeverDisabled(no_select) == FALSE

\* Line 152.
SelectionDisabled(no_select) == no_select

\* Variant: only end-of-input is caught.
CaughtEOFOnly(exc) == exc = "EOFError"

\* Lines 101 and 128: except (EOFError, KeyboardInterrupt).
Caught(exc) == exc \in {"EOFError", "KeyboardInterrupt"}

\* Variant: the empty list is looked at before page_size.
PrecheckEmptyFirst(total, page_size) ==
    IF total = 0 THEN "no_results"
    ELSE IF page_size <= 0 THEN "ValueError"
    ELSE "run"

\* Lines 57-63.
PaginatePrecheck(total, page_size) ==
    IF page_size <= 0 THEN "ValueError"
    ELSE IF total = 0 THEN "no_results"
    ELSE "run"

PaginateArgs(items, page_size, no_select) ==
    [fn |-> "paginate", items |-> items, page_size |-> page_size,
     no_select |-> no_select]

\* Lines 57-84: the call, up to the first prompt.
Paginate(items, page_size, no_select) ==
    /\ pc = "idle"
    /\ args' = PaginateArgs(items, page_size, no_select)
    /\ LET pre == PaginatePrecheck(Len(items), page_size)
       IN  /\ pc' = CASE pre = "ValueError" -> "raised"
                      [] pre = "no_results" -> "returned"
                      [] OTHER -> "nav"
           /\ stop' = IF pre = "run" THEN "none" ELSE pre
    /\ result' = NoneItem
    /\ page' = 1
    /\ UNCHANGED <<cmd, files, now, ttl, books, seen_keys, seen_page_signatures,
                   genres, log, last_next, files0, cache_read, got, lastSet>>

Pages == PageCount(Len(args.items), args.page_size)

\* What an answer leads to: the next position, page, result, reason of the
\* end, and the message printed.
Outcome(nextPc, nextPage, res, why, msg) ==
    [pc |-> nextPc, page |-> nextPage, result |-> res, stop |-> why, msg |-> msg]

\* Lines 99-167 for one answer at the navigation prompt.
NavOutcome(inp) ==
    LET c == LowerStr(Strip(inp.text))
        low == PageStart(page, args.page_size) + 1
        high == PageEnd(page, args.page_size, Len(args.items))
        pick == ParseInt(c)
    IN  IF inp.exc # "none"
        THEN IF Caught(inp.exc)
             THEN Outcome("returned", page, NoneItem, "interrupt", "")
             ELSE Outcome("raised", page, NoneItem, inp.exc, "")
        ELSE IF c = <<>> THEN Outcome("nav", page, NoneItem, "none", "")
        ELSE IF c = <<"q">> THEN Outcome("returned", page, NoneItem, "quit", "")
        ELSE IF c = <<"n">>
        THEN IF page < Pages
             THEN Outcome("nav", page + 1, NoneItem, "none", "")
             ELSE Outcome("nav", page, NoneItem, "none", "Already at last page.")
        ELSE IF c = <<"p">> \/ c = <<"b">>
        THEN IF page > 1
             THEN Outcome("nav", page - 1, NoneItem, "none", "")
             ELSE Outcome("nav", page, NoneItem, "none", "Already at first page.")
        ELSE IF c = <<"g">> THEN Outcome("goto", page, NoneItem, "none", "")
        ELSE IF SelectionDisabled(args.no_select)
        THEN Outcome("nav", page, NoneItem, "none", "Invalid input. Use n/p/g/b/q.")
        ELSE IF ~pick.ok
        THEN Outcome("nav", page, NoneItem, "none",
                     "Invalid input. Enter an item number or n/p/g/b/q.")
        ELSE IF ~InPageRange(low, high, pick.v)
        THEN Outcome("nav", page, NoneItem, "none", "Out of range.")
        ELSE Outcome("returned", page, SomeItem(args.items[pick.v]), "selected", "")

\* Lines 126-150 for one answer at the goto sub-prompt.
GotoOutcome(inp) ==
    LET c == LowerStr(Strip(inp.text))
        goto_page == ParseInt(c)
    IN  IF inp.exc # "none"
        THEN IF Caught(inp.exc)
             THEN Outcome("returned", page, NoneItem, "interrupt", "")
             ELSE Outcome("raised", page, NoneItem, inp.exc, "")
        ELSE IF c = <<>> THEN Outcome("nav", page, NoneItem, "none", "")
        ELSE IF c = <<"q">> THEN Outcome("returned", page, NoneItem, "quit", "")
        ELSE IF ~goto_page.ok
        THEN Outcome("nav", page, NoneItem, "none", "Invalid input: enter a number.")
        ELSE IF ~GotoPageInRange(goto_page.v, Pages)
        THEN Outcome("nav", page, NoneItem, "none", "Out of range: enter a number.")
        ELSE Outcome("nav", goto_page.v, NoneItem, "none", "")

Answered(prompt, inp, out) ==
    /\ log' = Append(log, [prompt |-> prompt, page |-> page, inp |-> inp,
                           msg |-> out.msg])
    /\ pc' = out.pc
    /\ page' = out.page
    /\ result' = out.result
    /\ stop' = out.stop
    /\ UNCHANGED <<cmd, files, now, ttl, args, books, seen_keys,
                   seen_page_signatures, genres, last_next, files0, cache_read,
                   got, lastSet>>

PaginateNav(inp) ==
    /\ pc = "nav"
    /\ Len(log) < MaxInputs
    /\ Answered("nav", inp, NavOutcome(inp))

PaginateGoto(inp) ==
    /\ pc = "goto"
    /\ Len(log) < MaxInputs
    /\ Answered("goto", inp, GotoOutcome(inp))

\* The calls of paginate tried, as <<number of items, page_size>>: no item,
\* three items shown two a page, and 45 items shown 20 a page.
PaginateCalls ==
    {<<0, 0 - 1>>, <<0, 0>>, <<0, 2>>, <<3, 0 - 1>>, <<3, 0>>, <<3, 2>>,
     <<45, 20>>}

ItemsOf(n) == [i \in 1..n |-> 100 + i]

\* Item numbers and page numbers typed at the prompts.
NavNumbers == {0 - 1, 0, 1, 3, 4, 46}
GotoNumbers == {0, 2, 3, 4}

Interrupts == {Raises("EOFError"), Raises("KeyboardInterrupt")}

NavInputs ==
    {Line(t) : t \in {<<>>, <<"q">>, <<" ", "Q">>, <<"n">>, <<"P", " ">>,
                      <<"b">>, <<"g">>, <<"x">>}}
    \cup {Line(IntText(k)) : k \in NavNumbers}
    \cup Interrupts

GotoInputs ==
    {Line(t) : t \in {<<>>, <<"Q">>, <<"x">>}}
    \cup {Line(IntText(k)) : k \in GotoNumbers}
    \cup Interrupts

PaginateInit ==
    /\ Init
    /\ files = [n \in CacheNames |-> NoFile]

PaginateNext ==
    \/ \E call \in PaginateCalls, ns \in BOOLEAN :
           Paginate(ItemsOf(call[1]), call[2], ns)
    \/ \E inp \in NavInputs : PaginateNav(inp)
    \/ \E inp \in GotoInputs : PaginateGoto(inp)

SpecPaginate == PaginateInit /\ [][PaginateNext]_vars

(***************************************************************************)
(* commands/genre.py: the matcher.  A similarity score is the fraction     *)
(* num/den that SequenceMatcher.ratio() divides out; scores are compared   *)
(* as fractions, and the tuning knobs are in hundredths.  The code holds   *)
(* scores as doubles: its comparisons agree with the comparisons of the    *)
(* fractions for every keyword slug shorter than 38 characters, the        *)
(* shortest for which a margin of exactly 7/100 between two scores exists  *)
(* (19/20 and 22/25) that the doubles miss.                                *)
(***************************************************************************)
MAX_SUGGESTIONS == 10
AUTO_PICK_CUTOFF == 90
AUTO_PICK_MARGIN == 7

\* a[i..i+k-1] = b[j..j+k-1].
MatchAt(a, b, i, j, k) == \A d \in 0..(k - 1) : a[i + d] = b[j + d]

\* The common blocks <<i, j, k>> inside a[alo..ahi] and b[blo..bhi].
CommonBlocks(a, b, alo, ahi, blo, bhi) ==
    {m \in (alo..ahi) \X (blo..bhi) \X (1..(ahi - alo + 1)) :
        /\ m[1] + m[3] - 1 <= ahi
        /\ m[2] + m[3] - 1 <= bhi
        /\ MatchAt(a, b, m[1], m[2], m[3])}

\* difflib find_longest_match without junk: a longest block, of those the one
\* that starts earliest in a, of those the one that starts earliest in b.
find_longest_match(a, b, alo, ahi, blo, bhi) ==
    LET blocks == CommonBlocks(a, b, alo, ahi, blo, bhi)
    IN  CHOOSE m \in blocks :
            \A o \in blocks :
                \/ m[3] > o[3]
                \/ m[3] = o[3] /\ m[1] < o[1]
                \/ m[3] = o[3] /\ m[1] = o[1] /\ m[2] <= o[2]

\* difflib get_matching_blocks: the longest block, then the same to its left
\* and to its right; the sum of the block sizes.
RECURSIVE MatchedChars(_, _, _, _, _, _)
MatchedChars(a, b, alo, ahi, blo, bhi) ==
    IF alo > ahi \/ blo > bhi \/ CommonBlocks(a, b, alo, ahi, blo, bhi) = {}
    THEN 0
    ELSE LET m == find_longest_match(a, b, alo, ahi, blo, bhi)
         IN  m[3]
             + MatchedChars(a, b, alo, m[1] - 1, blo, m[2] - 1)
             + MatchedChars(a, b, m[1] + m[3], ahi, m[2] + m[3], bhi)

\* difflib ratio(): 2.0 * matches / length, and 1.0 for two empty strings.
Ratio(a, b) ==
    IF Len(a) + Len(b) = 0 THEN [num |-> 1, den |-> 1]
    ELSE [num |-> 2 * MatchedChars(a, b, 1, Len(a), 1, Len(b)),
          den |-> Len(a) + Len(b)]

ScoreGreater(x, y) == x.num * y.den > y.num * x.den

ScoreEqual(x, y) == x.num * y.den = y.num * x.den

ZeroScore == [num |-> 0, den |-> 1]

\* Line 40: the list of (genre, score).
RECURSIVE ScoreGenres(_, _)
ScoreGenres(key, known) ==
    IF known = <<>> THEN <<>>
    ELSE <<[slug |-> Head(known), score |-> Ratio(key, Head(known))]>>
         \o ScoreGenres(key, Tail(known))

\* Variant: genres of equal score come out in reverse order.
rank_ties_reversed(keyword, known) ==
    LET scored == ScoreGenres(title_to_slug(Strip(keyword)), known)
        Before(i, j) ==
            \/ ScoreGreater(scored[i].score, scored[j].score)
            \/ ScoreEqual(scored[i].score, scored[j].score) /\ i > j
        Position(i) == 1 + Cardinality({j \in DOMAIN scored : Before(j, i)})
    IN  [p \in DOMAIN scored |->
            scored[CHOOSE i \in DOMAIN scored : Position(i) = p]]

\* Line 41: a stable sort by score, highest first.
SortByScore(scored) ==
    LET Before(i, j) ==
            \/ ScoreGreater(scored[i].score, scored[j].score)
            \/ ScoreEqual(scored[i].score, scored[j].score) /\ i < j
        Position(i) == 1 + Cardinality({j \in DOMAIN scored : Before(j, i)})
    IN  [p \in DOMAIN scored |->
            scored[CHOOSE i \in DOMAIN scored : Position(i) = p]]

\* Lines 38-42: score every genre, then sort.
rank_genre_matches(keyword, known) ==
    SortByScore(ScoreGenres(title_to_slug(Strip(keyword)), known))

\* Variant: an equal slug is never looked for.
ExactMatchNever(key_slug, known) == FALSE

\* Line 58: key_slug in genres.
ExactMatch(key_slug, known) == \E i \in DOMAIN known : known[i] = key_slug

\* Variant: the margin over the second score is not asked for.
AutoPickByCutoffOnly(best_score, second_score) ==
    100 * best_score.num >= AUTO_PICK_CUTOFF * best_score.den

\* Lines 66-69.
AutoPick(best_score, second_score) ==
    /\ 100 * best_score.num >= AUTO_PICK_CUTOFF * best_score.den
    /\ 100 * (best_score.num * second_score.den
              - second_score.num * best_score.den)
       >= AUTO_PICK_MARGIN * best_score.den * second_score.den

\* The number that the format {score:.0%} prints.
Percent(score) ==
    LET q == (100 * score.num) \div score.den
        r == (100 * score.num) % score.den
    IN  IF 2 * r < score.den THEN q
        ELSE IF 2 * r > score.den THEN q + 1
        ELSE IF q % 2 = 0 THEN q ELSE q + 1

\* Line 76: "Title  (match XX%)".
TitleOf(entry) ==
    [text |-> slug_to_title(entry.slug), pct |-> Percent(entry.score)]

\* list.index(x).
FirstIndex(l, x) ==
    CHOOSE i \in DOMAIN l : l[i] = x /\ \A j \in 1..(i - 1) : l[j] # x

Take(l, n) == SubSeq(l, 1, IF Len(l) < n THEN Len(l) ELSE n)

\* The locals of a call that returned are gone.
ClearLocals ==
    /\ pc' = "idle"
    /\ args' = NoArgs
    /\ books' = <<>>
    /\ seen_keys' = {}
    /\ seen_page_signatures' = {}
    /\ genres' = <<>>
    /\ page' = 1
    /\ result' = <<>>
    /\ stop' = "none"
    /\ log' = <<>>
    /\ last_next' = NoLink

KeepLocals ==
    UNCHANGED <<pc, args, books, seen_keys, seen_page_signatures, genres, page,
                result, stop, log, last_next>>

\* Line 45: the command is entered.
GenreCommand(keyword, use_cache) ==
    /\ pc = "idle"
    /\ cmd.at = "none"
    /\ cmd' = [NoCmd EXCEPT !.at = "start", !.keyword = keyword,
                            !.use_cache = use_cache]
    /\ KeepLocals
    /\ UNCHANGED <<files, now, ttl, files0, cache_read, got, lastSet>>

\* Line 47: goodread.get_genres(), its use_cache parameter at the default.
GenreGetGenres ==
    /\ cmd.at = "start"
    /\ CallGenres(TRUE)

\* Lines 48-98: from the genre list to the chosen genre, or to the prompt.
GenreResolve ==
    /\ cmd.at = "start"
    /\ pc = "returned"
    /\ args.fn = "genres"
    /\ LET known == result
           key_slug == title_to_slug(Strip(cmd.keyword))
           ranked == rank_genre_matches(cmd.keyword, known)
           second_score == IF Len(ranked) > 1 THEN ranked[2].score ELSE ZeroScore
           suggestions == Take(ranked, MAX_SUGGESTIONS)
           seen == [cmd EXCEPT !.genres = known, !.genres_cache_read = cache_read,
                               !.key_slug = key_slug]
       IN  IF known = <<>>
           THEN /\ cmd' = [seen EXCEPT !.at = "done"]
                /\ KeepLocals
           ELSE IF ExactMatch(key_slug, known)
           THEN /\ cmd' = [seen EXCEPT !.at = "resolved", !.chosen = key_slug]
                /\ ClearLocals
           ELSE IF AutoPick(ranked[1].score, second_score)
           THEN /\ cmd' = [seen EXCEPT !.at = "resolved", !.ranked = ranked,
                                       !.chosen = ranked[1].slug,
                                       !.auto_picked = TRUE]
                /\ ClearLocals
           ELSE /\ cmd' = [seen EXCEPT !.at = "prompt", !.ranked = ranked,
                                       !.suggestions = suggestions,
                                       !.titles = [i \in DOMAIN suggestions |->
                                                      TitleOf(suggestions[i])]]
                /\ ClearLocals
    /\ UNCHANGED <<files, now, ttl, files0, cache_read, got, lastSet>>

\* Lines 80-85: paginate(titles, page_size=min(len(titles), 10), no_select=False).
GenrePrompt ==
    /\ cmd.at = "prompt"
    /\ Paginate(cmd.titles,
                IF Len(cmd.titles) < MAX_SUGGESTIONS THEN Len(cmd.titles)
                ELSE MAX_SUGGESTIONS,
                FALSE)

\* Lines 86-98: the answer of the paginator.
GenreChoice ==
    /\ cmd.at = "prompt"
    /\ pc = "returned"
    /\ args.fn = "paginate"
    /\ IF ~result.some
       THEN /\ cmd' = [cmd EXCEPT !.at = "done"]
            /\ KeepLocals
       ELSE /\ cmd' = [cmd EXCEPT
                          !.at = "resolved",
                          !.chosen =
                              cmd.suggestions[FirstIndex(cmd.titles, result.v)].slug]
            /\ ClearLocals
    /\ UNCHANGED <<files, now, ttl, files0, cache_read, got, lastSet>>

\* Line 100: get_books_for_genre(chosen, use_cache=use_cache).
GenreGetBooks ==
    /\ cmd.at = "resolved"
    /\ CallBooks(cmd.chosen, cmd.use_cache, SomeInt(DefaultMaxPages),
                 DefaultDumpDir)

\* Lines 101-105: the count is reported and the command returns.
GenreReport ==
    /\ cmd.at = "resolved"
    /\ pc = "returned"
    /\ args.fn = "books"
    /\ cmd' = [cmd EXCEPT !.at = "done"]
    /\ KeepLocals
    /\ UNCHANGED <<files, now, ttl, files0, cache_read, got, lastSet>>

\* Keywords typed and genre lists the site serves.
Keywords ==
    {<<" ", "A", "b", "c", "d", "e">>, <<"S", " ", "F">>, <<"s", "f">>, <<"!">>}

\* One genre more than the command suggests.
ElevenGenres ==
    <<<<"a">>, <<"s">>, <<"b">>, <<"f">>, <<"f", "s">>, <<"c">>, <<"s", "a">>,
      <<"d">>, <<"e">>, <<"g">>, <<"s", "x">>>>

KnownGenreLists ==
    {<<>>,
     <<<<"a", "b", "c", "d", "e">>, <<"a", "b", "c", "d", "e", "f">>>>,
     <<<<"a", "b", "c", "d", "e", "f">>, <<"b">>>>,
     <<<<"a", "b", "c", "d", "e", "f">>, <<"a", "b", "c", "d", "e", "s">>>>,
     <<<<"a", "b", "c", "d">>, <<"a", "b", "c", "d", "e", "f">>>>,
     <<<<"a", "b", "c", "d", "e", "f">>>>,
     <<<<"s", "_", "f">>, <<"s", "-", "f">>>>,
     <<<<"b">>>>,
     ElevenGenres}

GenreCmdPages ==
    {[names |-> l, next |-> NoLink] : l \in KnownGenreLists}
    \cup {[names |-> <<<<"b">>>>, next |-> UsableLink]}

GenreCmdBookPages ==
    {[recs |-> <<>>, next |-> NoLink], [recs |-> <<B1>>, next |-> UsableLink]}

GenreCmdNavInputs ==
    {Line(t) : t \in {<<"q">>, <<"g">>, <<"1">>, <<"2">>, <<"3">>}}
    \cup {Raises("EOFError")}

GenreCmdGotoInputs == {Line(<<"1">>), Line(<<>>)}

GenreInit ==
    /\ Init
    /\ now <= DEFAULT_CACHE_TTL
    /\ ~files[GenresCacheKey].corrupt

GenreNext ==
    \/ \E keyword \in Keywords, uc \in BOOLEAN : GenreCommand(keyword, uc)
    \/ GenreGetGenres
    \/ GenresFetchFails
    \/ \E pg \in GenreCmdPages : GenresFetchPage(pg, "ok")
    \/ GenreResolve
    \/ GenrePrompt
    \/ \E inp \in GenreCmdNavInputs : PaginateNav(inp)
    \/ \E inp \in GenreCmdGotoInputs : PaginateGoto(inp)
    \/ GenreChoice
    \/ GenreGetBooks
    \/ BooksFetchFails
    \/ \E pg \in GenreCmdBookPages : BooksFetchPage(pg, "ok")
    \/ GenreReport

SpecGenre == GenreInit /\ [][GenreNext]_vars

(***************************************************************************)
(* The codec as pure functions: a text drawn at the start, then            *)
(* slug_to_title and title_to_slug applied to it, one after the other in   *)
(* any order; log is the history of the applications.                      *)
(***************************************************************************)
CodecChars == {"a", "S", "1", "-", "_", " ", "\t", "!", NonAsciiLower}

CodecInputs == SeqsUpTo(CodecChars, MaxTextLen)

CodecInit ==
    /\ files = [n \in CacheNames |-> NoFile]
    /\ now = 0
    /\ ttl = DEFAULT_CACHE_TTL
    /\ pc = "idle"
    /\ \E t \in CodecInputs : args = [fn |-> "codec", value |-> t]
    /\ books = <<>>
    /\ seen_keys = {}
    /\ seen_page_signatures = {}
    /\ genres = <<>>
    /\ page = 1
    /\ result = <<>>
    /\ stop = "none"
    /\ log = <<>>
    /\ last_next = NoLink
    /\ files0 = files
    /\ cache_read = "none"
    /\ got = NoGot
    /\ lastSet = NoSet
    /\ cmd = NoCmd

CodecValue == IF log = <<>> THEN args.value ELSE log[Len(log)].out

Applied(fn, out) ==
    /\ Len(log) < MaxCodecSteps
    /\ log' = Append(log, [fn |-> fn, in |-> CodecValue, out |-> out])
    /\ result' = out
    /\ pc' = "returned"
    /\ UNCHANGED <<cmd, files, now, ttl, args, books, seen_keys,
                   seen_page_signatures, genres, page, stop, last_next, files0,
                   cache_read, got, lastSet>>

CodecSlugToTitle == Applied("slug_to_title", slug_to_title(CodecValue))

CodecTitleToSlug == Applied("title_to_slug", title_to_slug(CodecValue))

CodecNext ==
    \/ CodecSlugToTitle
    \/ CodecTitleToSlug

SpecCodec == CodecInit /\ [][CodecNext]_vars

(***************************************************************************)
(* Vocabulary of the properties, stated on the history of fetched pages.   *)
(***************************************************************************)
\* The identity key of a record: stripped lowercased title, stripped
\* lowercased author, published year.
IdentityKeys ==
    [b \in BookPool |->
        <<LowerStr(Strip(b.title)), LowerStr(Strip(b.author)), b.published_year>>]

IdentityKey(b) == IdentityKeys[b]

RECURSIVE Flatten(_)
Flatten(l) ==
    IF l = <<>> THEN <<>>
    ELSE Flatten(SubSeq(l, 1, Len(l) - 1)) \o l[Len(l)].recs

\* The records of q whose identity key no earlier record of q has, in order.
RECURSIVE FirstOccurrences(_)
FirstOccurrences(q) ==
    IF q = <<>> THEN <<>>
    ELSE LET front == SubSeq(q, 1, Len(q) - 1)
             last == q[Len(q)]
         IN  IF \E i \in DOMAIN front : IdentityKey(front[i]) = IdentityKey(last)
             THEN FirstOccurrences(front)
             ELSE Append(FirstOccurrences(front), last)

Signature(recs) == [i \in DOMAIN recs |-> IdentityKey(recs[i])]

KeysOf(q) == {IdentityKey(q[i]) : i \in DOMAIN q}

\* Page i of the history brought a record whose key no earlier page had.
BroughtNew(l, i) ==
    /\ l[i].ok
    /\ KeysOf(l[i].recs) \ KeysOf(Flatten(SubSeq(l, 1, i - 1))) # {}

BooksRun == args.fn = "books" /\ stop # "hit"

BooksReturned == BooksRun /\ pc = "returned"

(***************************************************************************)
(* C1.  The list get_books_for_genre returns after fetching holds no two   *)
(* records with the same identity key, and is exactly the first occurrence *)
(* of every key in page order, then in-page order, whatever the other      *)
(* fields of the later records are.                                        *)
(***************************************************************************)
C1_FirstOccurrenceKept ==
    BooksReturned =>
        /\ \A i, j \in DOMAIN result :
               IdentityKey(result[i]) = IdentityKey(result[j]) => i = j
        /\ result = FirstOccurrences(Flatten(log))

\* Two records with one key and different cover images were fetched, on one
\* page and across pages, and a second key was kept as well.
C1_Witness ==
    /\ BooksReturned
    /\ Len(log) >= 2
    /\ Len(result) = 2
    /\ \E i, j \in DOMAIN log[1].recs :
           /\ i < j
           /\ IdentityKey(log[1].recs[i]) = IdentityKey(log[1].recs[j])
           /\ log[1].recs[i] # log[1].recs[j]
    /\ \E j \in DOMAIN log[2].recs :
           /\ IdentityKey(log[2].recs[j]) = IdentityKey(log[1].recs[1])
           /\ log[2].recs[j] # log[1].recs[1]

(***************************************************************************)
(* C2.  A fetched page whose signature equals that of an earlier page of   *)
(* the run ends the loop: it is the last fetch, nothing is raised, the     *)
(* repeat is what is reported, and the list returned is the unique records *)
(* of the earlier pages.                                                   *)
(***************************************************************************)
C2_RepeatedPageStops ==
    BooksRun =>
        \A j \in DOMAIN log :
            (/\ log[j].ok
             /\ log[j].recs # <<>>
             /\ \E i \in 1..(j - 1) :
                    Signature(log[i].recs) = Signature(log[j].recs))
            => /\ j = Len(log)
               /\ pc = "returned"
               /\ stop = "repeat"
               /\ result = FirstOccurrences(Flatten(SubSeq(log, 1, j - 1)))

\* Pages 1, 2 and 2 again.
C2_Witness ==
    /\ BooksReturned
    /\ stop = "repeat"
    /\ Len(log) = 3
    /\ Signature(log[3].recs) = Signature(log[2].recs)
    /\ Signature(log[1].recs) # Signature(log[2].recs)
    /\ Len(result) = 2

(***************************************************************************)
(* C3.  With max_pages = m set, no page numbered above m is fetched; a run *)
(* every page of which brought new records ends after exactly the fetches  *)
(* of pages 1..m and returns the records of those pages, without raising.  *)
(***************************************************************************)
C3_MaxPagesCap ==
    (BooksRun /\ args.max_pages.some) =>
        /\ \A i \in DOMAIN log : log[i].page = i /\ i <= args.max_pages.v
        /\ (\A i \in DOMAIN log : BroughtNew(log, i)) =>
               /\ pc # "raised"
               /\ pc = "returned" =>
                      /\ Len(log) = args.max_pages.v
                      /\ result = FirstOccurrences(Flatten(log))

\* max_pages = 2, two pages with new records, the second with a next link.
C3_Witness ==
    /\ BooksReturned
    /\ args.max_pages = SomeInt(2)
    /\ Len(log) = 2
    /\ \A i \in DOMAIN log : BroughtNew(log, i)
    /\ has_next_page(last_next)
    /\ Len(result) = 2

(***************************************************************************)
(* C4.  In the books-for-genre loop, once a page that brought new records  *)
(* has no usable next-page link, no further page is fetched.               *)
(***************************************************************************)
C4_NoNextLinkStops ==
    [][(/\ args.fn = "books"
        /\ pc = "books"
        /\ log # <<>>
        /\ ~has_next_page(last_next)) => log' = log]_vars

(***************************************************************************)
(* C5.  get_books_for_genre called with use_cache true and its other       *)
(* arguments at their defaults, while a readable, unexpired cache file     *)
(* exists under the genre's key, returns the cached list and fetches no    *)
(* page.                                                                   *)
(***************************************************************************)
DefaultBooksCall ==
    /\ args.fn = "books"
    /\ args.use_cache
    /\ args.max_pages = SomeInt(DefaultMaxPages)
    /\ args.dump_pages_dir = DefaultDumpDir

C5_DefaultCallServesCache ==
    (/\ DefaultBooksCall
     /\ cache_read # "oserror"
     /\ files0[BooksKey].exists
     /\ ~files0[BooksKey].corrupt
     /\ ~is_expired(files0[BooksKey], now, ttl))
    => /\ pc = "returned"
       /\ result = files0[BooksKey].data
       /\ log = <<>>

(***************************************************************************)
(* C6.  When such a default call finds no cached value and its loop ends   *)
(* by a natural end with list L, L is in the cache under the same key: a   *)
(* get() right after it yields L.                                          *)
(***************************************************************************)
C6_DefaultCallFillsCache ==
    (/\ DefaultBooksCall
     /\ pc = "returned"
     /\ stop \in {"empty", "repeat", "stuck"})
    => CacheGet(files[BooksKey], now, ttl, TRUE) = SomeList(result)

(***************************************************************************)
(* C7.  A fetch with use_cache false never writes the cache: when          *)
(* get_genres or get_books_for_genre returns, every cache file is as it    *)
(* was when the call began.                                                *)
(***************************************************************************)
C7_NoWriteWithoutUseCache ==
    (pc = "returned" /\ args.fn \in {"books", "genres"} /\ ~args.use_cache)
    => files = files0

(***************************************************************************)
(* C8.  A failing fetch, on page 1 or later, ends the call by raising: it  *)
(* is the last fetch, every page was asked for once, no list reaches the   *)
(* caller and the cache files are as they were when the call began.        *)
(***************************************************************************)
C8_FetchFailureAborts ==
    /\ \A i \in DOMAIN log :
           /\ log[i].page = i
           /\ ~log[i].ok => (i = Len(log) /\ pc = "raised")
    /\ pc = "raised" =>
           /\ log # <<>> /\ ~log[Len(log)].ok
           /\ result = <<>>
           /\ files = files0

\* The third fetch failed after two pages of books, in a call that would have
\* cached its list.
C8_Witness ==
    /\ pc = "raised"
    /\ args.fn = "books"
    /\ BooksCacheWrite(args.use_cache, args.dump_pages_dir)
    /\ Len(log) = 3
    /\ Len(books) = 2

(***************************************************************************)
(* C9.  A run of get_books_for_genre that the max_pages cap stopped does   *)
(* not write its list to the cache.                                        *)
(***************************************************************************)
CappedRun ==
    /\ BooksReturned
    /\ args.max_pages.some
    /\ log # <<>>
    /\ Len(log) = args.max_pages.v
    /\ \A i \in DOMAIN log : BroughtNew(log, i)

C9_CappedRunNotCached == CappedRun => files = files0

(***************************************************************************)
(* C10.  Expiry counts from the latest write of the file: with             *)
(* ttl_seconds > 0 and the file last written at T, get() at                *)
(* T + ttl_seconds - 1 returns the data written and get() at               *)
(* T + ttl_seconds + 1 returns nothing, where T is the time of the most    *)
(* recent set().                                                           *)
(***************************************************************************)
C10_ExpiryFromLastWrite ==
    (got.done /\ ttl > 0 /\ lastSet.n > 0 /\ got.sets = lastSet.n) =>
        /\ (lastSet.ok /\ got.readable /\ got.at = lastSet.at + ttl - 1)
               => got.val = SomeList(lastSet.data)
        /\ got.at = lastSet.at + ttl + 1 => got.val = NoneList

\* After a second set(), a get() one second before the new window ends, later
\* than the end of the first write's window.
C10_Witness ==
    /\ got.done
    /\ ttl > 0
    /\ lastSet.n = 2
    /\ lastSet.ok
    /\ got.sets = 2
    /\ got.at = lastSet.at + ttl - 1
    /\ got.at > lastSet.first + ttl
    /\ got.val = SomeList(lastSet.data)

(***************************************************************************)
(* Vocabulary of the properties of the genre command.                      *)
(***************************************************************************)
\* The command got a non-empty genre list and went through lines 52-90.
CmdResolved == cmd.at \in {"resolved", "prompt", "done"} /\ cmd.genres # <<>>

KnownSlugs == {cmd.genres[i] : i \in DOMAIN cmd.genres}

KeywordSlug == title_to_slug(cmd.keyword)

\* The candidates were shown to the user.
Prompted == cmd.titles # <<>>

\* score >= 0.90, and score - second >= 0.07, on fractions.
ScoreAtLeastCutoff(x) == 10 * x.num >= 9 * x.den

ScoreLeadsBy(x, y) ==
    100 * (x.num * y.den - y.num * x.den) >= 7 * x.den * y.den

(***************************************************************************)
(* C11.  Whenever title_to_slug(keyword) equals a known genre, that slug   *)
(* is chosen at once: no candidate is scored, the paginator is never       *)
(* prompted, whatever the other known genres are.                          *)
(***************************************************************************)
C11_ExactMatchWins ==
    (CmdResolved /\ KeywordSlug \in KnownSlugs) =>
        /\ cmd.chosen = KeywordSlug
        /\ cmd.ranked = <<>>
        /\ ~Prompted
        /\ ~cmd.auto_picked
        /\ cmd.at # "prompt"
        /\ args.fn # "paginate"

\* The keyword's slug is known, another known genre is similar enough to pass
\* the cutoff, and the books of the exact genre were fetched.
C11_Witness ==
    /\ cmd.at = "done"
    /\ KeywordSlug \in KnownSlugs
    /\ \E g \in KnownSlugs :
           g # KeywordSlug /\ ScoreAtLeastCutoff(Ratio(KeywordSlug, g))
    /\ args.fn = "books"
    /\ args.genre = KeywordSlug
    /\ log # <<>>

(***************************************************************************)
(* C12.  Without an exact match, the top-ranked genre is chosen without    *)
(* prompting exactly when its score is >= 0.90 and leads the second score  *)
(* (0 when one genre is known) by >= 0.07; otherwise the user is prompted  *)
(* and nothing is auto-picked.                                             *)
(***************************************************************************)
C12_AutoPickRule ==
    (CmdResolved /\ KeywordSlug \notin KnownSlugs) =>
        LET best == cmd.ranked[1].score
            second == IF Len(cmd.ranked) > 1 THEN cmd.ranked[2].score
                      ELSE [num |-> 0, den |-> 1]
        IN  /\ Len(cmd.ranked) = Len(cmd.genres)
            /\ IF ScoreAtLeastCutoff(best) /\ ScoreLeadsBy(best, second)
               THEN /\ cmd.auto_picked
                    /\ cmd.chosen = cmd.ranked[1].slug
                    /\ ~Prompted
                    /\ cmd.at # "prompt"
               ELSE /\ ~cmd.auto_picked
                    /\ Prompted
                    /\ cmd.at = "resolved" =>
                           \E i \in DOMAIN cmd.suggestions :
                               cmd.chosen = cmd.suggestions[i].slug

\* Two known genres both score >= 0.90 with equal scores, and the prompt is up.
C12_Witness ==
    /\ cmd.at = "prompt"
    /\ pc = "nav"
    /\ Len(cmd.ranked) = 2
    /\ ScoreAtLeastCutoff(cmd.ranked[1].score)
    /\ ScoreAtLeastCutoff(cmd.ranked[2].score)
    /\ ~cmd.auto_picked
    /\ Len(args.items) = 2

(***************************************************************************)
(* Vocabulary of the properties of the paginator, on the history of the    *)
(* answers.                                                                *)
(***************************************************************************)
PaginateRun == args.fn = "paginate"

\* ceil(n / d) for d > 0.
CeilDiv(n, d) == IF n % d = 0 THEN n \div d ELSE (n \div d) + 1

Total == CeilDiv(Len(args.items), args.page_size)

\* The command entered in answer i, trimmed and lowercased.
Entered(i) == LowerStr(Strip(log[i].inp.text))

TextAt(prompt, i) == log[i].prompt = prompt /\ log[i].inp.exc = "none"

\* The page after answer i, and whether the call ended with it.
PageAfter(i) == IF i < Len(log) THEN log[i + 1].page ELSE page

EndedAt(i) == i = Len(log) /\ pc \in {"returned", "raised"}

\* Answer i left the paginator at the navigation prompt.
BackAtNav(i) ==
    IF i < Len(log) THEN log[i + 1].prompt = "nav" ELSE pc = "nav"

ReturnedNone == pc = "returned" /\ ~result.some

\* The 1-based global indices displayed on page p.
Displayed(p) ==
    ((p - 1) * args.page_size + 1)
    .. (IF p * args.page_size < Len(args.items) THEN p * args.page_size
        ELSE Len(args.items))

\* The integers typed at the navigation prompt.
TypedNumbers == NavNumbers

(***************************************************************************)
(* C13.  n on page P < Total moves to P + 1, n on page Total reports       *)
(* "already at last page" and stays; p or b on page P > 1 moves to P - 1,  *)
(* on page 1 reports "already at first page" and stays.  With page_size 20 *)
(* and 45 items there are 3 pages: three n from page 1 reach page 3 and a  *)
(* fourth n reports already-at-last-page with the page still 3.            *)
(***************************************************************************)
C13_NextPrevNavigation ==
    PaginateRun =>
        /\ \A i \in DOMAIN log :
               /\ (TextAt("nav", i) /\ Entered(i) = <<"n">>) =>
                      /\ ~EndedAt(i)
                      /\ BackAtNav(i)
                      /\ IF log[i].page < Total
                         THEN PageAfter(i) = log[i].page + 1 /\ log[i].msg = ""
                         ELSE /\ PageAfter(i) = log[i].page
                              /\ log[i].msg = "Already at last page."
               /\ (TextAt("nav", i) /\ Entered(i) \in {<<"p">>, <<"b">>}) =>
                      /\ ~EndedAt(i)
                      /\ BackAtNav(i)
                      /\ IF log[i].page > 1
                         THEN PageAfter(i) = log[i].page - 1 /\ log[i].msg = ""
                         ELSE /\ PageAfter(i) = 1
                              /\ log[i].msg = "Already at first page."
        /\ (/\ Len(args.items) = 45
            /\ args.page_size = 20
            /\ Len(log) >= 4
            /\ \A i \in 1..4 : TextAt("nav", i) /\ Entered(i) = <<"n">>)
           => /\ Total = 3
              /\ log[4].page = 3
              /\ log[4].msg = "Already at last page."
              /\ PageAfter(4) = 3

\* 45 items, page_size 20, selection disabled: n four times.
C13_Witness ==
    /\ PaginateRun
    /\ args.no_select
    /\ Len(args.items) = 45
    /\ args.page_size = 20
    /\ Len(log) = 4
    /\ \A i \in 1..4 : TextAt("nav", i) /\ Entered(i) = <<"n">>
    /\ log[2].msg = ""
    /\ log[3].page = 3
    /\ log[4].page = 3
    /\ log[4].msg = "Already at last page."
    /\ page = 3
    /\ pc = "nav"

(***************************************************************************)
(* C14.  With selection enabled, an item is returned only for an integer k *)
(* in the displayed page's range of global indices, and it is items[k-1]   *)
(* (the k-th item); an integer outside that range is rejected, the page is *)
(* unchanged and the prompt is repeated.                                   *)
(***************************************************************************)
C14_SelectionInPageRange ==
    (PaginateRun /\ ~args.no_select) =>
        /\ result.some =>
               /\ pc = "returned"
               /\ log # <<>>
               /\ TextAt("nav", Len(log))
               /\ \E k \in Displayed(log[Len(log)].page) :
                      /\ Entered(Len(log)) = IntText(k)
                      /\ result.v = args.items[k]
        /\ \A i \in DOMAIN log :
               \A k \in TypedNumbers :
                   (TextAt("nav", i) /\ Entered(i) = IntText(k)) =>
                       IF k \in Displayed(log[i].page)
                       THEN EndedAt(i) /\ result = SomeItem(args.items[k])
                       ELSE /\ ~EndedAt(i)
                            /\ BackAtNav(i)
                            /\ PageAfter(i) = log[i].page
                            /\ log[i].msg = "Out of range."

\* On page 2 of three items shown two a page: 1, an index of page 1, was
\* rejected, then 3 returned the third item.
C14_Witness ==
    /\ PaginateRun
    /\ ~args.no_select
    /\ Len(args.items) = 3
    /\ args.page_size = 2
    /\ Len(log) = 3
    /\ log[2].page = 2
    /\ TextAt("nav", 2)
    /\ Entered(2) = <<"1">>
    /\ log[2].msg = "Out of range."
    /\ log[3].page = 2
    /\ Entered(3) = <<"3">>
    /\ result = SomeItem(args.items[3])

(***************************************************************************)
(* C15.  With selection disabled paginate never returns an item, numeric   *)
(* answers that are valid indices of the current page included, and every  *)
(* answer other than empty, q, n, p, b, g is rejected as invalid with the  *)
(* loop continuing on the same page.                                       *)
(***************************************************************************)
C15_NoSelectNeverReturns ==
    (PaginateRun /\ args.no_select) =>
        /\ ~result.some
        /\ pc = "returned" => result = NoneItem
        /\ \A i \in DOMAIN log :
               (/\ TextAt("nav", i)
                /\ Entered(i) \notin {<<>>, <<"q">>, <<"n">>, <<"p">>, <<"b">>,
                                      <<"g">>})
               => /\ ~EndedAt(i)
                  /\ BackAtNav(i)
                  /\ PageAfter(i) = log[i].page
                  /\ log[i].msg = "Invalid input. Use n/p/g/b/q."

\* Selection disabled: 1 was typed while item 1 was displayed, then q.
C15_Witness ==
    /\ PaginateRun
    /\ args.no_select
    /\ Len(log) = 2
    /\ TextAt("nav", 1)
    /\ Entered(1) = <<"1">>
    /\ 1 \in Displayed(log[1].page)
    /\ log[1].msg = "Invalid input. Use n/p/g/b/q."
    /\ Entered(2) = <<"q">>
    /\ ReturnedNone

(***************************************************************************)
(* C16.  End-of-input or a keyboard interrupt at the navigation prompt or  *)
(* at the goto sub-prompt ends paginate as q does: it returns none and no  *)
(* error reaches the caller.                                               *)
(***************************************************************************)
C16_InterruptIsQuit ==
    PaginateRun =>
        \A i \in DOMAIN log :
            (\/ log[i].inp.exc \in {"EOFError", "KeyboardInterrupt"}
             \/ log[i].inp.exc = "none" /\ Entered(i) = <<"q">>)
            => /\ EndedAt(i)
               /\ ReturnedNone

\* A keyboard interrupt at the goto sub-prompt.
C16_Witness ==
    /\ PaginateRun
    /\ Len(log) >= 2
    /\ log[Len(log)].prompt = "goto"
    /\ log[Len(log)].inp.exc = "KeyboardInterrupt"
    /\ ReturnedNone

(***************************************************************************)
(* C17.  page_size <= 0 is a configuration error signalled before anything *)
(* is rendered or read, also when items is empty; page_size > 0 with empty *)
(* items reports no results and returns none without a prompt.             *)
(***************************************************************************)
C17_Preconditions ==
    PaginateRun =>
        /\ args.page_size <= 0 =>
               /\ pc = "raised"
               /\ stop = "ValueError"
               /\ log = <<>>
        /\ (args.page_size > 0 /\ args.items = <<>>) =>
               /\ ReturnedNone
               /\ stop = "no_results"
               /\ log = <<>>
        /\ (args.page_size > 0 /\ args.items # <<>>) =>
               stop \notin {"ValueError", "no_results"}

\* page_size 0 with an empty list.
C17_Witness ==
    /\ PaginateRun
    /\ args.page_size = 0
    /\ args.items = <<>>
    /\ pc = "raised"
    /\ stop = "ValueError"

(***************************************************************************)
(* C18.  At the goto sub-prompt, empty input and q alike end paginate with *)
(* result none.                                                            *)
(***************************************************************************)
C18_GotoEmptyQuits ==
    PaginateRun =>
        \A i \in DOMAIN log :
            (TextAt("goto", i) /\ Entered(i) \in {<<>>, <<"q">>})
            => EndedAt(i) /\ ReturnedNone

(***************************************************************************)
(* C19.  title_to_slug(slug_to_title(s)) = s for every normalized slug s   *)
(* (lowercase letters and digits in hyphen-separated tokens, no leading or *)
(* trailing hyphen, no double hyphen); both functions map "" to "".        *)
(***************************************************************************)
IsNormalizedSlug(s) ==
    /\ \A i \in DOMAIN s :
           InTable(s[i], LowerLetters) \/ InTable(s[i], DigitChars) \/ s[i] = "-"
    /\ s # <<>> => s[1] # "-" /\ s[Len(s)] # "-"
    /\ \A i \in 1..(Len(s) - 1) : ~(s[i] = "-" /\ s[i + 1] = "-")

C19_RoundTrip ==
    args.fn = "codec" =>
        /\ (/\ Len(log) = 2
            /\ log[1].fn = "slug_to_title"
            /\ log[2].fn = "title_to_slug"
            /\ IsNormalizedSlug(args.value))
           => log[2].out = args.value
        /\ \A i \in DOMAIN log : log[i].in = <<>> => log[i].out = <<>>

\* "a-1" became "A 1" and came back as "a-1".
C19_Witness ==
    /\ args.fn = "codec"
    /\ args.value = <<"a", "-", "1">>
    /\ Len(log) = 2
    /\ log[1] = [fn |-> "slug_to_title", in |-> <<"a", "-", "1">>,
                 out |-> <<"A", " ", "1">>]
    /\ log[2].fn = "title_to_slug"
    /\ log[2].out = <<"a", "-", "1">>

(***************************************************************************)
(* C20.  The genre command run with use_cache false reads neither cache:   *)
(* the genre list and the books of the chosen genre both come from a fresh *)
(* fetch.                                                                  *)
(***************************************************************************)
C20_GenreCommandBypassesCaches ==
    (cmd.at = "done" /\ ~cmd.use_cache /\ args.fn = "books") =>
        /\ cmd.genres_cache_read = "none"
        /\ cache_read = "none"

(***************************************************************************)
(* C21.  In get_books_for_genre a fetched page with zero records, and a    *)
(* fetched page with a new signature all of whose identity keys earlier    *)
(* pages had, each end the loop softly: it is the last fetch, nothing is   *)
(* raised, and the list returned is the list accumulated before that page. *)
(***************************************************************************)
SoftStopPage(l, j) ==
    /\ l[j].ok
    /\ \/ l[j].recs = <<>>
       \/ /\ \A i \in 1..(j - 1) : Signature(l[i].recs) # Signature(l[j].recs)
          /\ KeysOf(l[j].recs) \subseteq KeysOf(Flatten(SubSeq(l, 1, j - 1)))

C21_SoftStops ==
    BooksRun =>
        \A j \in DOMAIN log :
            SoftStopPage(log, j) =>
                /\ j = Len(log)
                /\ pc = "returned"
                /\ stop = (IF log[j].recs = <<>> THEN "empty" ELSE "stuck")
                /\ result = books
                /\ result = FirstOccurrences(Flatten(SubSeq(log, 1, j - 1)))

\* Two keys on page 1, then a shorter page 2 holding only a key of page 1.
C21_Witness ==
    /\ BooksReturned
    /\ stop = "stuck"
    /\ Len(log) = 2
    /\ Len(log[1].recs) = 2
    /\ Len(log[2].recs) = 1
    /\ log[2].recs[1] # log[1].recs[1]
    /\ result = log[1].recs

(***************************************************************************)
(* C22.  get_genres stops as get_books_for_genre does: a fetched page that *)
(* yields zero genres, or that yields the genres of an earlier page again, *)
(* is the last fetch and the call returns, also when every page carries a  *)
(* usable next-page link.                                                  *)
(***************************************************************************)
GenresRun == args.fn = "genres" /\ stop # "hit"

GenresOfPage(l, j) == extract_genres_from_soup(l[j].recs)

C22_GenresStopLikeBooks ==
    GenresRun =>
        \A j \in DOMAIN log :
            (/\ log[j].ok
             /\ \/ GenresOfPage(log, j) = <<>>
                \/ \E i \in 1..(j - 1) :
                       log[i].ok /\ GenresOfPage(log, i) = GenresOfPage(log, j))
            => /\ j = Len(log)
               /\ pc = "returned"

(***************************************************************************)
(* C23.  Cache faults never change what a fetch returns.  When the cache   *)
(* file exists and has not expired but does not parse or cannot be read,   *)
(* the call is not served from it and goes on to fetch as on a miss; and   *)
(* whatever becomes of the cache write, a call that fetched returns the    *)
(* whole list its pages gave, and raises only when a fetch failed.         *)
(***************************************************************************)
FetchRun == args.fn \in {"books", "genres"}

CallKey == IF args.fn = "books" THEN BooksKey ELSE GenresCacheKey

\* The genres of the pages of a history, in order.
RECURSIVE GenresOfPages(_)
GenresOfPages(l) ==
    IF l = <<>> THEN <<>>
    ELSE GenresOfPages(SubSeq(l, 1, Len(l) - 1))
         \o extract_genres_from_soup(l[Len(l)].recs)

FetchedList ==
    IF args.fn = "books" THEN FirstOccurrences(Flatten(log)) ELSE GenresOfPages(log)

\* The call tried the cache and met a file in date that it could not use.
CacheReadFault ==
    /\ cache_read # "none"
    /\ files0[CallKey].exists
    /\ ~is_expired(files0[CallKey], now, ttl)
    /\ files0[CallKey].corrupt \/ cache_read = "oserror"

C23_CacheFaultsHarmless ==
    FetchRun =>
        /\ CacheReadFault =>
               /\ stop # "hit"
               /\ log = <<>> => (pc \in {"books", "genres"} \/ stop = "cap")
        /\ stop # "hit" =>
               /\ pc = "returned" => result = FetchedList
               /\ pc = "raised" => (log # <<>> /\ ~log[Len(log)].ok)

\* A damaged cache file in date was met, two books were fetched and returned,
\* and the cache write failed: the file still yields nothing.
C23_Witness ==
    /\ args.fn = "books"
    /\ CacheReadFault
    /\ files0[CallKey].corrupt
    /\ pc = "returned"
    /\ Len(log) = 3
    /\ Len(result) = 2
    /\ CacheGet(files[CallKey], now, ttl, TRUE) = NoneList

(***************************************************************************)
(* C24.  At the goto sub-prompt an integer d with 1 <= d <= Total makes d  *)
(* the current page; an answer that is not a number (other than the empty  *)
(* answer and q, which cancel) or an integer outside 1..Total is rejected  *)
(* with a message, the page stays as it was, and the paginator is back at  *)
(* the navigation prompt, not ended.                                       *)
(***************************************************************************)
C24_GotoSetsPageOrRejects ==
    PaginateRun =>
        \A i \in DOMAIN log :
            (TextAt("goto", i) /\ Entered(i) \notin {<<>>, <<"q">>}) =>
                /\ i > 1
                /\ TextAt("nav", i - 1)
                /\ Entered(i - 1) = <<"g">>
                /\ ~EndedAt(i)
                /\ BackAtNav(i)
                /\ IF \E d \in 1..Total : Entered(i) = IntText(d)
                   THEN /\ Entered(i) = IntText(PageAfter(i))
                        /\ log[i].msg = ""
                   ELSE /\ PageAfter(i) = log[i].page
                        /\ log[i].msg # ""

\* 45 items shown 20 a page: g and 3 went from page 1 to page 3, then g and 4
\* was rejected on page 3.
C24_Witness ==
    /\ PaginateRun
    /\ Len(args.items) = 45
    /\ Len(log) = 4
    /\ log[1].page = 1
    /\ TextAt("goto", 2)
    /\ Entered(2) = <<"3">>
    /\ log[3].page = 3
    /\ TextAt("goto", 4)
    /\ Entered(4) = <<"4">>
    /\ log[4].msg = "Out of range: enter a number."
    /\ page = 3
    /\ pc = "nav"

(***************************************************************************)
(* C25.  The ranking of a keyword holds every known genre once per         *)
(* occurrence, each with its similarity score, highest score first, and    *)
(* genres of equal score in the order the genre list has them; when the    *)
(* user is prompted, the candidates shown are the first                    *)
(* min(10, number of known genres) entries of the ranking, in that order.  *)
(***************************************************************************)
RankedSlugs == [p \in DOMAIN cmd.ranked |-> cmd.ranked[p].slug]

Occurrences(l, x) == Cardinality({i \in DOMAIN l : l[i] = x})

\* The score the ranking gives to slug g.
RankedScore(g) ==
    cmd.ranked[CHOOSE p \in DOMAIN cmd.ranked : cmd.ranked[p].slug = g].score

\* The slugs of l to which the ranking gives score x, in the order of l.
WithScore(l, x) == SelectSeq(l, LAMBDA g : ScoreEqual(RankedScore(g), x))

Min(a, b) == IF a < b THEN a ELSE b

RankingMade == cmd.ranked # <<>>

C25_RankingStableTopTen ==
  /\ (Prompted /\ args.fn = "paginate") =>
        /\ args.items = cmd.titles
        /\ Len(args.items) = Min(10, Len(cmd.genres))
  /\ RankingMade =>
        /\ Len(cmd.ranked) = Len(cmd.genres)
        /\ \A i \in DOMAIN cmd.genres :
               Occurrences(RankedSlugs, cmd.genres[i])
                   = Occurrences(cmd.genres, cmd.genres[i])
        /\ \A p \in DOMAIN cmd.ranked :
               ScoreEqual(cmd.ranked[p].score, Ratio(KeywordSlug, cmd.ranked[p].slug))
        /\ \A p, q \in DOMAIN cmd.ranked :
               p < q => ~ScoreGreater(cmd.ranked[q].score, cmd.ranked[p].score)
        /\ \A p \in DOMAIN cmd.ranked :
               WithScore(RankedSlugs, cmd.ranked[p].score)
                   = WithScore(cmd.genres, cmd.ranked[p].score)
        /\ Prompted =>
               /\ Len(cmd.titles) = Min(10, Len(cmd.genres))
               /\ \A i \in DOMAIN cmd.titles :
                      /\ cmd.suggestions[i] = cmd.ranked[i]
                      /\ cmd.titles[i].text = slug_to_title(cmd.ranked[i].slug)

\* Eleven genres are known; the ten shown begin with two of equal score that
\* are not the first two of the genre list, ahead of one of lower score.
C25_Witness ==
    /\ cmd.at = "prompt"
    /\ pc = "nav"
    /\ Len(cmd.genres) = 11
    /\ Len(args.items) = 10
    /\ cmd.ranked[1].slug # cmd.genres[1]
    /\ ScoreEqual(cmd.ranked[1].score, cmd.ranked[2].score)
    /\ ScoreGreater(cmd.ranked[2].score, cmd.ranked[3].score)
    /\ cmd.ranked[11].slug \notin {cmd.suggestions[i].slug : i \in 1..10}

(***************************************************************************)
(* C26.  Whatever the input, the result of title_to_slug is a normalized   *)
(* slug: lowercase ASCII letters, digits and hyphens only, no hyphen at    *)
(* either end, no two hyphens in a row; and title_to_slug applied to its   *)
(* own result gives that result again.                                     *)
(***************************************************************************)
C26_SlugNormalizedIdempotent ==
    args.fn = "codec" =>
        \A i \in DOMAIN log :
            log[i].fn = "title_to_slug" =>
                /\ IsNormalizedSlug(log[i].out)
                /\ (i > 1 /\ log[i - 1].fn = "title_to_slug") =>
                       log[i].out = log[i - 1].out

\* "S -a", with two separators in a row, became "s-a" and stayed "s-a".
C26_Witness ==
    /\ args.fn = "codec"
    /\ args.value = <<"S", " ", "-", "a">>
    /\ Len(log) = 2
    /\ log[1].fn = "title_to_slug"
    /\ log[1].out = <<"s", "-", "a">>
    /\ log[2].fn = "title_to_slug"
    /\ log[2].in = <<"s", "-", "a">>
    /\ log[2].out = <<"s", "-", "a">>

(***************************************************************************)
(* C27.  Over records drawn from a finite set of identity keys the loop of *)
(* get_books_for_genre ends, max_pages unset included: every iteration     *)
(* that went on to a next page enlarged the set of seen keys, so at most   *)
(* the number of distinct keys plus one pages are fetched.                 *)
(***************************************************************************)
PoolKeys == {IdentityKey(b) : b \in BookPool}

C27_FetchesBoundedByKeys ==
    BooksRun =>
        /\ seen_keys = KeysOf(Flatten(log))
        /\ seen_keys \subseteq PoolKeys
        /\ pc = "books" =>
               /\ page = Len(log) + 1
               /\ Cardinality(seen_keys) >= Len(log)
        /\ pc # "books" => Cardinality(seen_keys) >= Len(log) - 1
        /\ Len(log) <= Cardinality(PoolKeys) + 1

\* max_pages unset: every key of the pool was seen on a page of its own, and
\* one page more was fetched before the call returned.
C27_Witness ==
    /\ BooksReturned
    /\ ~args.max_pages.some
    /\ seen_keys = PoolKeys
    /\ Len(log) = Cardinality(PoolKeys) + 1
    /\ \A i \in DOMAIN log : log[i].ok /\ log[i].recs # <<>>

(***************************************************************************)
(* C28.  When the user, prompted for disambiguation, selects the candidate *)
(* displayed at position k, the genre chosen, whose books are then         *)
(* fetched, is the slug of the k-th ranked candidate, also when distinct   *)
(* slugs are displayed as the same text.                                   *)
(***************************************************************************)
C28_SelectionPicksRanked ==
    [][(/\ cmd.at = "prompt"
        /\ args.fn = "paginate"
        /\ pc = "returned"
        /\ result.some
        /\ cmd'.at = "resolved")
       => \A k \in DOMAIN cmd.suggestions :
              Entered(Len(log)) = IntText(k) => cmd'.chosen = cmd.ranked[k].slug]_vars

(***************************************************************************)
(* C29.  While the paginator runs, whatever was answered (n, p, b, g with  *)
(* any destination, selections, invalid text, nothing), the current page P *)
(* satisfies 1 <= P <= Total with Total = ceil(item_count / page_size),    *)
(* and the range of indices displayed for P is not empty and lies within   *)
(* 1..item_count.                                                          *)
(***************************************************************************)
\* The first and the last index printed for page p.
ShownLow(p) == PageStart(p, args.page_size) + 1

ShownHigh(p) == PageEnd(p, args.page_size, Len(args.items))

PageInBounds(p) ==
    /\ 1 <= p
    /\ p <= Total
    /\ ShownLow(p) <= ShownHigh(p)
    /\ 1 <= ShownLow(p)
    /\ ShownHigh(p) <= Len(args.items)

C29_PageWithinBounds ==
    (PaginateRun /\ (pc \in {"nav", "goto"} \/ log # <<>>)) =>
        /\ PageInBounds(page)
        /\ \A i \in DOMAIN log : PageInBounds(log[i].page)

\* 45 items shown 20 a page, selection enabled: n twice to the last page,
\* which shows 41..45, then 46 and a third n, both refused.
C29_Witness ==
    /\ PaginateRun
    /\ ~args.no_select
    /\ Len(args.items) = 45
    /\ Len(log) = 4
    /\ pc = "nav"
    /\ page = 3
    /\ ShownLow(page) = 41
    /\ ShownHigh(page) = 45
    /\ Entered(3) = <<"4", "6">>
    /\ log[3].msg = "Out of range."
    /\ Entered(4) = <<"n">>
    /\ log[4].msg = "Already at last page."

====
